---------------------------- MODULE Spec2Model ----------------------------
(***************************************************************************)
(* Online examination system (src/app.py): a Flask application over three  *)
(* MongoDB collections (users, exams, results) and a cookie session.       *)
(*                                                                         *)
(* A request arrives and is handled by exactly one view function (one      *)
(* action per route, the whole handler with its decorator in one step),    *)
(* then answered (Respond).  Form fields are strings; a field that is      *)
(* absent from the form reads as None, int() and ObjectId() parse them and *)
(* raise on malformed input, which Flask turns into a 500 response.        *)
(*                                                                         *)
(* Left out of the documents: title, description, the four option strings  *)
(* and the timestamps (stored, never read by a handler).  A rendered page  *)
(* is its template's name: the data handed to the template is left out.    *)
(* A float is the exact quotient it stands for.                            *)
(***************************************************************************)
EXTENDS Integers, Sequences, FiniteSets, TLC

VARIABLES
    users,      \* users_collection: sequence of User documents, in insertion order
    exams,      \* exams_collection: sequence of Exam documents
    results,    \* results_collection: sequence of Result documents
    session,    \* the browser's Flask session (user_id, username, role)
    phase,      \* "idle" | "done" (a request was handled, its response not yet sent)
    request,    \* the request being handled: endpoint, method, form
    response,   \* the response of the last handled request
    seedCalls,  \* how many times init_sample_data has run
    reg         \* concurrent register requests: per worker its position and locals

vars == <<users, exams, results, session, phase, request, response, seedCalls, reg>>

-----------------------------------------------------------------------------
(* Bounds of the model *)

MaxExams == 1
MaxResults == 1
MaxUsers == 4
MaxQuestions == 3
MaxStoredUsers == 2
MaxSeedCalls == 3

-----------------------------------------------------------------------------
(* Python values *)

\* request.form.get(k) of an absent field, session.get(k) of an absent key
None == "<None>"

\* form.get(key)
Get(form, key) == IF key \in DOMAIN form THEN form[key] ELSE None

\* the decimal strings int() accepts, with their values
IntOf == [s \in {"-1", "0", "1", "2", "3", "4", "5", "6", "30"} |->
            CASE s = "-1" -> -1 [] s = "0" -> 0 [] s = "1" -> 1 [] s = "2" -> 2
              [] s = "3" -> 3 [] s = "4" -> 4 [] s = "5" -> 5 [] s = "6" -> 6
              [] s = "30" -> 30]

\* int(v) raises TypeError on None and ValueError on a non-numeric string
IntRaises(v) == v \notin DOMAIN IntOf
int(v) == IntOf[v]

\* str(n) of a document id
str(n) == ToString(n)

\* f"question_{i}" and the like
FieldName(prefix, i) == prefix \o ToString(i)

\* ObjectId(s): a well-formed id string parses, anything else raises
\* InvalidId; ObjectId(None) makes a fresh id, which names no document.
FreshObjectId == 0
ObjectIdRaises(s) == s # None /\ (s \notin DOMAIN IntOf \/ IntOf[s] < 1)
ObjectId(s) == IF s = None THEN FreshObjectId ELSE IntOf[s]

Min(S) == CHOOSE x \in S : \A y \in S : x <= y

RECURSIVE Gcd(_, _)
Gcd(a, b) == IF b = 0 THEN a ELSE Gcd(b, a % b)

-----------------------------------------------------------------------------
(* werkzeug.security *)

\* The hash of a password, as a number; distinct passwords of the model have
\* distinct hashes (the salt, which changes no outcome, is left out).
PwCode == [p \in {"password123", "secret", "letmein"} |->
             CASE p = "password123" -> 1 [] p = "secret" -> 2 [] p = "letmein" -> 3]
Digest(password) == (PwCode[password] * 5 + 3) % 17

\* generate_password_hash / check_password_hash raise on a None password
HashRaises(password) == password = None
generate_password_hash(password) == [method |-> "scrypt", hashval |-> Digest(password)]

check_password_hash_any(pwhash, password) == pwhash.method = "scrypt"
check_password_hash(pwhash, password) == Digest(password) = pwhash.hashval

-----------------------------------------------------------------------------
(* The document store *)

NoDoc == [_id |-> 0]
Found(doc) == doc._id # 0

\* collection.find_one({field: value}): the first match in natural order
find_by_email(coll, email) ==
    LET hits == {i \in 1..Len(coll) : coll[i].email = email}
    IN  IF hits = {} THEN NoDoc ELSE coll[Min(hits)]
find_by_id(coll, id) ==
    LET hits == {i \in 1..Len(coll) : coll[i]._id = id}
    IN  IF hits = {} THEN NoDoc ELSE coll[Min(hits)]

\* collection.insert_one(doc): the store assigns a fresh _id
insert_one(coll, doc) == Append(coll, [_id |-> Len(coll) + 1] @@ doc)

UserDoc(username, email, pwhash, role) ==
    [username |-> username, email |-> email, password |-> pwhash, role |-> role]

-----------------------------------------------------------------------------
(* Session and responses *)

\* session.clear(): no key is present
Anonymous == [user_id |-> None, username |-> None, role |-> None]
\* "user_id" in session
LoggedIn(s) == s.user_id # None

Redirect(endpoint, msg, category) ==
    [kind |-> "redirect", target |-> endpoint, flash |-> msg, category |-> category]
Render(template, msg, category) ==
    [kind |-> "render", target |-> template, flash |-> msg, category |-> category]
\* an unhandled exception: Flask answers 500
ServerError(exception) ==
    [kind |-> "error", target |-> exception, flash |-> "", category |-> ""]
NoResponse == [kind |-> "", target |-> "", flash |-> "", category |-> ""]

EmptyForm == [k \in {} |-> ""]
NoRequest == [endpoint |-> "", method |-> "", form |-> EmptyForm]
Req(endpoint, method, form) == [endpoint |-> endpoint, method |-> method, form |-> form]

-----------------------------------------------------------------------------
(* Authorization decorators: TRUE when the wrapped view runs *)

login_required_open(s) == TRUE
login_required(s) == LoggedIn(s)

admin_required_login_only(s) == LoggedIn(s)
admin_required(s) == LoggedIn(s) /\ s.role = "admin"

LoginGateResponse == Redirect("login", "", "")
AdminGateResponse == Redirect("dashboard", "Admin access required", "error")

-----------------------------------------------------------------------------
(* Scoring, as the loop of submit_exam computes it *)

\* some present answer of the first n questions is not an integer
AnswerRaises(form, n) ==
    \E i \in 0..(n - 1) :
        LET ans == Get(form, FieldName("question_", i))
        IN  ans # None /\ IntRaises(ans)

\* the answers list: the submitted integer, or -1 for an absent field
Answers(form, n) ==
    [k \in 1..n |->
        LET ans == Get(form, FieldName("question_", k - 1))
        IN  IF ans # None THEN int(ans) ELSE -1]

RECURSIVE ScoreCountingMissing(_, _, _)
ScoreCountingMissing(questions, form, n) ==
    IF n = 0 THEN 0
    ELSE LET ans == Get(form, FieldName("question_", n - 1))
             a   == IF ans # None THEN int(ans) ELSE -1
         IN  ScoreCountingMissing(questions, form, n - 1)
               + (IF a = questions[n].correct_answer THEN 1 ELSE 0)

\* score after the first n questions
RECURSIVE Score(_, _, _)
Score(questions, form, n) ==
    IF n = 0 THEN 0
    ELSE LET ans == Get(form, FieldName("question_", n - 1))
         IN  Score(questions, form, n - 1)
               + (IF ans # None /\ int(ans) = questions[n].correct_answer
                  THEN 1 ELSE 0)

\* a float that is the exact quotient num/den, in lowest terms
Frac(num, den) ==
    LET g == Gcd(num, den) IN [num |-> num \div g, den |-> den \div g]

\* (score / total) * 100; total = 0 raises ZeroDivisionError
Percentage(score, total) ==
    LET q == Frac(score, total) IN Frac(q.num * 100, q.den)

-----------------------------------------------------------------------------
(* init_sample_data: seeds the admin and the student account, each only
   when no User with its email exists *)

SeedAdmin(coll) ==
    IF ~Found(find_by_email(coll, "admin@test.com"))
    THEN insert_one(coll, UserDoc("Admin", "admin@test.com",
                                  generate_password_hash("password123"), "admin"))
    ELSE coll

SeedStudent(coll) ==
    IF ~Found(find_by_email(coll, "student@test.com"))
    THEN insert_one(coll, UserDoc("Student", "student@test.com",
                                  generate_password_hash("password123"), "student"))
    ELSE coll

init_sample_data_unconditional(coll) ==
    insert_one(insert_one(coll,
        UserDoc("Admin", "admin@test.com",
                generate_password_hash("password123"), "admin")),
        UserDoc("Student", "student@test.com",
                generate_password_hash("password123"), "student"))
init_sample_data(coll) == SeedStudent(SeedAdmin(coll))

NoWorkers == [w \in {} |-> 0]

-----------------------------------------------------------------------------
(* The application after start-up: the store seeded once, no session *)

Init ==
    /\ users = init_sample_data(<<>>)
    /\ exams = <<>>
    /\ results = <<>>
    /\ session = Anonymous
    /\ phase = "idle"
    /\ request = NoRequest
    /\ response = NoResponse
    /\ seedCalls = 1
    /\ reg = NoWorkers

-----------------------------------------------------------------------------
(* The requests a browser sends *)

Emails == {"admin@test.com", "student@test.com", "new@test.com"}
Passwords == {"password123", "secret"}
Usernames == {"Eve"}

LoginForms ==
    [email : Emails, password : Passwords] \cup [email : Emails]

RegisterForms ==
    [username : Usernames, email : Emails, password : Passwords]
      \cup [username : Usernames, email : Emails]

\* exam_id as the browser sends it: the ids in use, one beyond, a malformed one
ExamIdStrings == {str(i) : i \in 1..(MaxExams + 1)} \cup {"zz"}

AnswerStrings == {"0", "1", "x"}
CorrectStrings == {"1"}

\* the forms with some of the fields prefix0 .. prefix(n-1), valued in vals
IndexedForms(prefix, n, vals) ==
    UNION {[{FieldName(prefix, i) : i \in present} -> vals] :
              present \in SUBSET (0..(n - 1))}

\* exams of at most one question; a malformed count, a missing duration
CreateExamForms ==
    {f @@ g : f \in [duration : {"30"}, question_count : {"0", "1", "x"}]
                     \cup [question_count : {"1"}],
              g \in IndexedForms("correct_answer_", 1, CorrectStrings)}

SubmitForms(maxq) ==
    {f @@ g : f \in [exam_id : ExamIdStrings] \cup {EmptyForm},
              g \in IndexedForms("question_", maxq, AnswerStrings)}

Requests ==
    {Req(e, "GET", EmptyForm) :
        e \in {"index", "login", "register", "logout", "dashboard",
               "admin_dashboard", "create_exam"}}
      \cup {Req("login", "POST", f) : f \in LoginForms}
      \cup {Req("register", "POST", f) : f \in RegisterForms}
      \cup {Req("create_exam", "POST", f) : f \in CreateExamForms}
      \cup {Req("take_exam", "GET", f) : f \in [exam_id : ExamIdStrings]}
      \cup {Req("submit_exam", "POST", f) : f \in SubmitForms(1)}

\* the collections are capped: no insert is requested into a full one
WithinCaps(req) ==
    /\ req.endpoint = "register" /\ req.method = "POST" => Len(users) < MaxUsers
    /\ req.endpoint = "create_exam" /\ req.method = "POST" => Len(exams) < MaxExams
    /\ req.endpoint = "submit_exam" => Len(results) < MaxResults

\* the response is sent and the request context is popped
Respond ==
    /\ phase = "done"
    /\ phase' = "idle"
    /\ request' = NoRequest
    /\ response' = NoResponse
    /\ UNCHANGED <<users, exams, results, session, seedCalls, reg>>

\* a request for the endpoint arrives while no other is being handled
Arrives(reqs) ==
    /\ phase = "idle"
    /\ request' \in {req \in reqs : WithinCaps(req)}
Handling(endpoint) == Arrives({req \in Requests : req.endpoint = endpoint})
Handled == phase' = "done" /\ UNCHANGED <<seedCalls, reg>>

-----------------------------------------------------------------------------
(* The view functions *)

index ==
    /\ Handling("index")
    /\ response' = IF LoggedIn(session) THEN Redirect("dashboard", "", "")
                   ELSE Render("index.html", "", "")
    /\ UNCHANGED <<users, exams, results, session>>
    /\ Handled

SessionOf(user) ==
    [user_id |-> str(user._id), username |-> user.username, role |-> user.role]

login ==
    /\ Handling("login")
    /\ LET email    == Get(request'.form, "email")
           password == Get(request'.form, "password")
           user     == find_by_email(users, email)
       IN  IF request'.method # "POST"
           THEN response' = Render("login.html", "", "") /\ session' = session
           ELSE IF ~Found(user)
           THEN /\ response' = Render("login.html", "Invalid email or password", "error")
                /\ session' = session
           ELSE IF HashRaises(password)
           THEN response' = ServerError("AttributeError") /\ session' = session
           ELSE IF check_password_hash(user.password, password)
           THEN /\ session' = SessionOf(user)
                /\ response' = Redirect(IF user.role = "admin" THEN "admin_dashboard"
                                        ELSE "dashboard", "Login successful", "success")
           ELSE /\ response' = Render("login.html", "Invalid email or password", "error")
                /\ session' = session
    /\ UNCHANGED <<users, exams, results>>
    /\ Handled

EmailTakenNever(coll, email) == FALSE
\* users_collection.find_one({"email": email}) is truthy
EmailTaken(coll, email) == Found(find_by_email(coll, email))

register ==
    /\ Handling("register")
    /\ LET username == Get(request'.form, "username")
           email    == Get(request'.form, "email")
           password == Get(request'.form, "password")
       IN  IF request'.method # "POST"
           THEN response' = Render("register.html", "", "") /\ users' = users
           ELSE IF EmailTaken(users, email)
           THEN /\ response' = Redirect("register", "Email already registered", "error")
                /\ users' = users
           ELSE IF HashRaises(password)
           THEN response' = ServerError("AttributeError") /\ users' = users
           ELSE /\ users' = insert_one(users,
                              UserDoc(username, email,
                                      generate_password_hash(password), "student"))
                /\ response' = Redirect("login", "Registration successful. Please login.",
                                        "success")
    /\ UNCHANGED <<exams, results, session>>
    /\ Handled

session_clear_keep(s) == s
session_clear(s) == Anonymous

logout ==
    /\ Handling("logout")
    /\ session' = session_clear(session)
    /\ response' = Redirect("index", "Logged out successfully", "success")
    /\ UNCHANGED <<users, exams, results>>
    /\ Handled

dashboard ==
    /\ Handling("dashboard")
    /\ response' = IF ~login_required(session) THEN LoginGateResponse
                   ELSE IF session.role = "admin" THEN Redirect("admin_dashboard", "", "")
                   ELSE Render("dashboard.html", "", "")
    /\ UNCHANGED <<users, exams, results, session>>
    /\ Handled

admin_dashboard ==
    /\ Handling("admin_dashboard")
    /\ response' = IF ~admin_required(session) THEN AdminGateResponse
                   ELSE Render("admin_dashboard.html", "", "")
    /\ UNCHANGED <<users, exams, results, session>>
    /\ Handled

\* the questions list built by the loop over range(q_count)
Questions(form, q_count) ==
    [k \in 1..q_count |->
        [correct_answer |-> int(Get(form, FieldName("correct_answer_", k - 1)))]]

\* int(v): TypeError on None, ValueError on a non-numeric string
IntError(v) == IF v = None THEN "TypeError" ELSE "ValueError"

\* the exception create_exam's int() calls raise, in the order of the code
\* (the duration, the question count, each correct answer); "" when none does
CreateExamError(form) ==
    LET duration == Get(form, "duration")
        q_count  == Get(form, "question_count")
        bad      == {i \in 0..(int(q_count) - 1) :
                        IntRaises(Get(form, FieldName("correct_answer_", i)))}
    IN  IF IntRaises(duration) THEN IntError(duration)
        ELSE IF IntRaises(q_count) THEN IntError(q_count)
        ELSE IF bad # {} THEN IntError(Get(form, FieldName("correct_answer_", Min(bad))))
        ELSE ""

create_exam ==
    /\ Handling("create_exam")
    /\ IF ~admin_required(session)
       THEN response' = AdminGateResponse /\ exams' = exams
       ELSE IF request'.method # "POST"
       THEN response' = Render("create_exam.html", "", "") /\ exams' = exams
       ELSE IF CreateExamError(request'.form) # ""
       THEN response' = ServerError(CreateExamError(request'.form)) /\ exams' = exams
       ELSE /\ exams' = insert_one(exams,
                  [duration   |-> int(Get(request'.form, "duration")),
                   questions  |-> Questions(request'.form,
                                            int(Get(request'.form, "question_count"))),
                   created_by |-> ObjectId(session.user_id),
                   is_active  |-> TRUE])
            /\ response' = Redirect("admin_dashboard", "Exam created successfully",
                                    "success")
    /\ UNCHANGED <<users, results, session>>
    /\ Handled

ExamAvailableIfFound(exam) == Found(exam)
\* not (not exam or not exam["is_active"])
ExamAvailable(exam) == Found(exam) /\ exam.is_active

take_exam ==
    /\ Handling("take_exam")
    /\ LET exam_id == Get(request'.form, "exam_id")
       IN  response' =
             IF ~login_required(session) THEN LoginGateResponse
             ELSE IF ObjectIdRaises(exam_id) THEN ServerError("InvalidId")
             ELSE IF ~ExamAvailable(find_by_id(exams, ObjectId(exam_id)))
             THEN Redirect("dashboard", "Exam not available", "error")
             ELSE Render("take_exam.html", "", "")
    /\ UNCHANGED <<users, exams, results, session>>
    /\ Handled

ResultDoc(student_id, exam_id, form, questions) ==
    LET n     == Len(questions)
        score == Score(questions, form, n)
    IN  [student_id      |-> student_id,
         exam_id         |-> exam_id,
         answers         |-> Answers(form, n),
         score           |-> score,
         total_questions |-> n,
         percentage      |-> Percentage(score, n)]

submit_exam_view ==
    /\ LET exam_id == Get(request'.form, "exam_id")
           exam    == find_by_id(exams, ObjectId(exam_id))
       IN  IF ~login_required(session)
           THEN response' = LoginGateResponse /\ results' = results
           ELSE IF ObjectIdRaises(exam_id)
           THEN response' = ServerError("InvalidId") /\ results' = results
           ELSE IF ~Found(exam)
           THEN response' = ServerError("TypeError") /\ results' = results
           ELSE IF AnswerRaises(request'.form, Len(exam.questions))
           THEN response' = ServerError("ValueError") /\ results' = results
           ELSE IF Len(exam.questions) = 0
           THEN response' = ServerError("ZeroDivisionError") /\ results' = results
           ELSE /\ results' = insert_one(results,
                      ResultDoc(ObjectId(session.user_id), ObjectId(exam_id),
                                request'.form, exam.questions))
                /\ response' = Redirect("dashboard", "", "")
    /\ UNCHANGED <<users, exams, session>>
    /\ Handled

submit_exam == Handling("submit_exam") /\ submit_exam_view

\* The store is external: an operator may set is_active to false on an Exam
\* document (the application itself never updates an Exam).
DeactivateExam ==
    /\ phase = "idle"
    /\ \E i \in 1..Len(exams) :
          /\ exams[i].is_active
          /\ exams' = [exams EXCEPT ![i].is_active = FALSE]
    /\ UNCHANGED <<users, results, session, phase, request, response, seedCalls, reg>>

Next ==
    \/ index
    \/ login
    \/ register
    \/ logout
    \/ dashboard
    \/ admin_dashboard
    \/ create_exam
    \/ take_exam
    \/ submit_exam
    \/ Respond
    \/ DeactivateExam

Spec == Init /\ [][Next]_vars

-----------------------------------------------------------------------------
(* Scoring on its own: one stored exam of up to MaxQuestions questions, a
   logged-in student, and every form over its answer fields *)

Exam(questions) ==
    [_id |-> 1, duration |-> 30, questions |-> questions, created_by |-> 1,
     is_active |-> TRUE]

StoredQuestions ==
    UNION {[1..n -> [correct_answer : {-1, 0, 1}]] : n \in 0..MaxQuestions}

ScoreRequests ==
    {Req("submit_exam", "POST", [exam_id |-> "1"] @@ g) :
        g \in IndexedForms("question_", MaxQuestions, AnswerStrings \cup {"-1"})}

InitScore ==
    /\ users = init_sample_data(<<>>)
    /\ \E qs \in StoredQuestions : exams = <<Exam(qs)>>
    /\ results = <<>>
    /\ session = SessionOf(find_by_email(users, "student@test.com"))
    /\ phase = "idle"
    /\ request = NoRequest
    /\ response = NoResponse
    /\ seedCalls = 1
    /\ reg = NoWorkers

\* one submission is scored: the handler reads nothing of the earlier Results
ScoreSubmit == results = <<>> /\ Arrives(ScoreRequests) /\ submit_exam_view

NextScore == ScoreSubmit \/ Respond

SpecScore == InitScore /\ [][NextScore]_vars

-----------------------------------------------------------------------------
(* Seeding on its own: init_sample_data run repeatedly over any small users
   collection (duplicate emails included) *)

StoredUser ==
    [username : {"Old"},
     email    : {"admin@test.com", "student@test.com", "old@test.com"},
     password : {generate_password_hash("letmein")},
     role     : {"student", "admin"}]

\* the documents with the ids the store gave them
WithIds(docs) == [i \in 1..Len(docs) |-> [_id |-> i] @@ docs[i]]

StoredUsers ==
    UNION {{WithIds(docs) : docs \in [1..n -> StoredUser]} : n \in 0..MaxStoredUsers}

InitSeed ==
    /\ users \in StoredUsers
    /\ exams = <<>>
    /\ results = <<>>
    /\ session = Anonymous
    /\ phase = "idle"
    /\ request = NoRequest
    /\ response = NoResponse
    /\ seedCalls = 0
    /\ reg = NoWorkers

Seed ==
    /\ seedCalls < MaxSeedCalls
    /\ users' = init_sample_data(users)
    /\ seedCalls' = seedCalls + 1
    /\ UNCHANGED <<exams, results, session, phase, request, response, reg>>

SpecSeed == InitSeed /\ [][Seed]_vars

-----------------------------------------------------------------------------
(* Concurrent registration: each worker runs register's find_one and
   insert_one as separate steps *)

Workers == {"w1", "w2"}

\* seen: the size of the collection find_one scanned; inserted: the _id
\* insert_one returned (0: none)
Idle == [pc |-> "start", form |-> EmptyForm, seen |-> 0, inserted |-> 0,
         response |-> NoResponse]

InitRace ==
    /\ users = init_sample_data(<<>>)
    /\ exams = <<>>
    /\ results = <<>>
    /\ session = Anonymous
    /\ phase = "idle"
    /\ request = NoRequest
    /\ response = NoResponse
    /\ seedCalls = 1
    /\ reg = [w \in Workers |-> Idle]

RegisterReceive(w) ==
    /\ reg[w].pc = "start"
    /\ \E f \in RegisterForms :
          reg' = [reg EXCEPT ![w].pc = "find_one", ![w].form = f]
    /\ UNCHANGED users

RegisterFindOne(w) ==
    /\ reg[w].pc = "find_one"
    /\ LET email    == Get(reg[w].form, "email")
           password == Get(reg[w].form, "password")
           me       == [reg[w] EXCEPT !.seen = Len(users)]
       IN  reg' = [reg EXCEPT ![w] =
             IF EmailTaken(users, email)
             THEN [me EXCEPT !.pc = "done",
                             !.response = Redirect("register",
                                            "Email already registered", "error")]
             ELSE IF HashRaises(password)
             THEN [me EXCEPT !.pc = "done", !.response = ServerError("AttributeError")]
             ELSE [me EXCEPT !.pc = "insert_one"]]
    /\ UNCHANGED users

RegisterInsertOne(w) ==
    /\ reg[w].pc = "insert_one"
    /\ LET f == reg[w].form
       IN  users' = insert_one(users,
                      UserDoc(Get(f, "username"), Get(f, "email"),
                              generate_password_hash(Get(f, "password")), "student"))
    /\ reg' = [reg EXCEPT ![w].pc = "done",
                          ![w].inserted = Len(users) + 1,
                          ![w].response = Redirect("login",
                                "Registration successful. Please login.", "success")]

RaceFrame == UNCHANGED <<exams, results, session, phase, request, response, seedCalls>>

RaceReceive == RaceFrame /\ \E w \in Workers : RegisterReceive(w)
RaceFindOne == RaceFrame /\ \E w \in Workers : RegisterFindOne(w)
RaceInsertOne == RaceFrame /\ \E w \in Workers : RegisterInsertOne(w)

NextRace == RaceReceive \/ RaceFindOne \/ RaceInsertOne

SpecRace == InitRace /\ [][NextRace]_vars

-----------------------------------------------------------------------------
(* Vocabulary of the properties *)

\* the step in which a request for the endpoint is handled
Step(endpoint) == phase = "idle" /\ phase' = "done" /\ request'.endpoint = endpoint
Post(endpoint) == Step(endpoint) /\ request'.method = "POST"
Answered(endpoint) == phase = "done" /\ request.endpoint = endpoint
StoreUnchanged == users' = users /\ exams' = exams /\ results' = results

Field(key) == IF key \in DOMAIN request'.form THEN request'.form[key] ELSE None
Last(seq) == seq[Len(seq)]
Docs(coll) == {coll[i] : i \in 1..Len(coll)}

IsAnonymous(s) == s.user_id = None
IsAdmin(s) == s.user_id # None /\ s.role = "admin"
SessionFor(u) == [user_id |-> ToString(u._id), username |-> u.username, role |-> u.role]

Response(kind, target, msg, category) ==
    [kind |-> kind, target |-> target, flash |-> msg, category |-> category]

CountEmail(coll, email) == Cardinality({i \in 1..Len(coll) : coll[i].email = email})
UniqueEmails == \A i, j \in 1..Len(users) : users[i].email = users[j].email => i = j

-----------------------------------------------------------------------------
(* C1  Admin gate.  A request to /admin/dashboard or /admin/create-exam (GET
   or POST) from a session that is anonymous or not of role admin is answered
   by a redirect to the student dashboard with the error flash "Admin access
   required", and leaves users, exams and results unchanged.  An Exam is
   inserted only by a POST /admin/create-exam of an admin session, and every
   stored Exam was created by a User of role admin. *)
C1_AdminGate ==
    /\ [](\A e \in Docs(exams) :
             \E u \in Docs(users) : u._id = e.created_by /\ u.role = "admin")
    /\ [][/\ (Step("admin_dashboard") \/ Step("create_exam")) /\ ~IsAdmin(session)
             => /\ response' = Response("redirect", "dashboard",
                                        "Admin access required", "error")
                /\ StoreUnchanged
          /\ Len(exams') > Len(exams)
             => /\ Post("create_exam") /\ IsAdmin(session)
                /\ Last(exams').created_by = IntOf[session.user_id]]_vars

\* a student's POST /admin/create-exam was refused
C1_Witness ==
    /\ Answered("create_exam") /\ request.method = "POST"
    /\ session.role = "student"
    /\ response.flash = "Admin access required"
    /\ exams = <<>>

(* C2  Login gate.  A request to /dashboard, /exam/<id> or /submit-exam from
   an anonymous session is answered by a redirect to the login page and
   leaves every collection unchanged.  A Result is inserted only by a
   /submit-exam of an authenticated session, with that session's user id as
   its student_id, and every stored Result names an existing User. *)
C2_LoginGate ==
    /\ [](\A r \in Docs(results) : \E u \in Docs(users) : u._id = r.student_id)
    /\ [][/\ (Step("dashboard") \/ Step("take_exam") \/ Step("submit_exam"))
                /\ IsAnonymous(session)
             => /\ response' = Response("redirect", "login", "", "")
                /\ StoreUnchanged
          /\ Len(results') > Len(results)
             => /\ Step("submit_exam") /\ ~IsAnonymous(session)
                /\ Last(results').student_id = IntOf[session.user_id]]_vars

\* an anonymous POST /submit-exam naming an existing exam was sent to login
C2_Witness ==
    /\ Answered("submit_exam") /\ IsAnonymous(session)
    /\ Get(request.form, "exam_id") = "1" /\ Len(exams) = 1
    /\ response.target = "login"
    /\ results = <<>>

-----------------------------------------------------------------------------
(* Scoring vocabulary: the submitted form read independently of the handler *)

Present(i) == FieldName("question_", i - 1) \in DOMAIN request'.form
Submitted(i) == IntOf[request'.form[FieldName("question_", i - 1)]]
IntegerForm(n) ==
    \A i \in 1..n : Present(i) => request'.form[FieldName("question_", i - 1)] \in DOMAIN IntOf
SubmittedExam == CHOOSE e \in Docs(exams) : e._id = IntOf[Field("exam_id")]
Correct(e) == {i \in 1..Len(e.questions) :
                  Present(i) /\ Submitted(i) = e.questions[i].correct_answer}

\* the step appends the Result the scoring rule prescribes for exam e
RecordsScore(e) ==
    LET n == Len(e.questions)
        r == Last(results')
        k == Cardinality(Correct(e))
    IN  /\ Len(results') = Len(results) + 1
        /\ \A i \in 1..Len(results) : results'[i] = results[i]
        /\ r.total_questions = n
        /\ Len(r.answers) = n
        /\ \A i \in 1..n : r.answers[i] = IF Present(i) THEN Submitted(i) ELSE -1
        /\ r.score = k
        /\ r.percentage.den > 0
        /\ r.percentage.num * n = k * 100 * r.percentage.den
        /\ k = n => r.percentage = [num |-> 100, den |-> 1]
        /\ k = 0 => r.percentage = [num |-> 0, den |-> 1]

(* C3  Scoring, as amended.  For an exam with N >= 1 questions and a form
   whose present question_i fields are integers, submit_exam appends one
   Result with total_questions = N, answers of length N holding the submitted
   integer or -1 for an absent field, score = the number of present answers
   equal to the stored correct_answer, and percentage = (score / N) x 100
   (100 when all are correct, 0 when none is).  For N = 0 the division
   raises and no Result is recorded. *)
C3_Scoring ==
    [][Step("submit_exam")
         => LET e == SubmittedExam
                n == Len(e.questions)
            IN  /\ n >= 1 /\ IntegerForm(n) => RecordsScore(e)
                /\ n = 0 => results' = results /\ response'.kind = "error"]_vars

\* one of three answered correctly, one wrongly, one left out: 100/3 percent
C3_Witness ==
    /\ Answered("submit_exam") /\ results # <<>>
    /\ Last(results).total_questions = 3
    /\ Last(results).score = 1
    /\ \E i, j \in 1..3 : Last(results).answers[i] = -1
                          /\ Last(results).answers[j] \notin {-1, exams[1].questions[j].correct_answer}
    /\ Last(results).percentage = [num |-> 100, den |-> 3]

(* C3 as stated: for an exam with N questions, any N, and any form of
   integer answers, submit_exam records the Result the scoring rule
   prescribes. *)
C3_ScoringAnyN ==
    [][Step("submit_exam")
         => LET e == SubmittedExam
            IN  IntegerForm(Len(e.questions)) => RecordsScore(e)]_vars

-----------------------------------------------------------------------------
(* Registration and login vocabulary *)

Known(email) == {i \in 1..Len(users) : users[i].email = email}
\* the stored hash of user u is the hash of the password
HashOf(u, password) == password # None /\ u.password.hashval = Digest(password)
HomeOf(u) == IF u.role = "admin" THEN "admin_dashboard" ELSE "dashboard"

InvalidCredentials == Response("render", "login.html", "Invalid email or password", "error")

(* C4  Registration then login.  POST /register with a username, a password
   and an email that no User has inserts exactly one User, of role student,
   holding that username, that email and the hash of that password; no
   request ever changes or removes a stored User.  A POST /login with the
   email and the password of a stored User sets the session to that User's
   id, username and role and redirects to the dashboard of the role (the
   student dashboard for a registered User).  A POST /login with an unknown
   email, or with a password that is not the User's, leaves the session
   unchanged and answers with the one message "Invalid email or password". *)
C4_RegisterThenLogin ==
    [][/\ Len(users') >= Len(users) /\ \A i \in 1..Len(users) : users'[i] = users[i]
       /\ Post("register") /\ Known(Field("email")) = {} /\ Field("password") # None
          => /\ users' = Append(users,
                    [_id      |-> Len(users) + 1,
                     username |-> Field("username"),
                     email    |-> Field("email"),
                     password |-> [method |-> "scrypt",
                                   hashval |-> Digest(Field("password"))],
                     role     |-> "student"])
             /\ response'.kind = "redirect" /\ response'.target = "login"
       /\ Post("login") /\ Known(Field("email")) # {}
             /\ HashOf(users[Min(Known(Field("email")))], Field("password"))
          => LET u == users[Min(Known(Field("email")))]
             IN  /\ session' = SessionFor(u)
                 /\ response' = Response("redirect", HomeOf(u),
                                         "Login successful", "success")
       /\ Post("login")
             /\ \/ Known(Field("email")) = {}
                \/ /\ Field("password") # None
                   /\ \A i \in Known(Field("email")) : ~HashOf(users[i], Field("password"))
          => /\ session' = session
             /\ response' = InvalidCredentials]_vars

\* the registered user logged in with the registered credentials
C4_Witness ==
    /\ Answered("login") /\ request.method = "POST"
    /\ Get(request.form, "email") = "new@test.com"
    /\ session = [user_id |-> "3", username |-> "Eve", role |-> "student"]
    /\ response.target = "dashboard" /\ response.flash = "Login successful"

(* C5  Duplicate email, sequentially.  A POST /register with an email some
   User already has (whatever the username and the password) is answered by
   a redirect to the registration page with the error flash "Email already
   registered" and leaves the users collection unchanged; no two Users ever
   share an email. *)
C5_DuplicateEmail ==
    /\ []UniqueEmails
    /\ [][Post("register") /\ Known(Field("email")) # {}
            => /\ response' = Response("redirect", "register",
                                       "Email already registered", "error")
               /\ users' = users]_vars

\* a second registration of new@test.com, after the first, was rejected
C5_Witness ==
    /\ Answered("register") /\ request.method = "POST"
    /\ Get(request.form, "email") = "new@test.com"
    /\ response.flash = "Email already registered"
    /\ Len(users) = 3 /\ users[3].email = "new@test.com"
    /\ HashOf(users[3], "secret") /\ Get(request.form, "password") = "password123"

-----------------------------------------------------------------------------
(* Exam delivery vocabulary *)

\* an Exam with the id exists and is active
Available(id) == \E e \in Docs(exams) : e._id = id /\ e.is_active
WellFormedId(s) == s \in DOMAIN IntOf /\ IntOf[s] >= 1

(* C6  Inactive exam delivery.  For an authenticated session of either role,
   GET /exam/<id> with a well-formed id renders the exam form exactly when
   an Exam with that id exists and is active; when it is absent or inactive
   the answer is the error flash "Exam not available" with a redirect to the
   dashboard, the same in both cases.  No collection is modified. *)
C6_InactiveExam ==
    [][Step("take_exam")
         => /\ StoreUnchanged
            /\ ~IsAnonymous(session) /\ WellFormedId(Field("exam_id"))
               => response' = IF Available(IntOf[Field("exam_id")])
                              THEN Response("render", "take_exam.html", "", "")
                              ELSE Response("redirect", "dashboard",
                                            "Exam not available", "error")
            /\ response'.target = "take_exam.html"
               => ~IsAnonymous(session) /\ Available(IntOf[Field("exam_id")])]_vars

\* an admin asked for a deactivated exam and was sent to the dashboard
C6_Witness ==
    /\ Answered("take_exam") /\ session.role = "admin"
    /\ WellFormedId(Get(request.form, "exam_id"))
    /\ \E e \in Docs(exams) : e._id = IntOf[Get(request.form, "exam_id")] /\ ~e.is_active
    /\ response.flash = "Exam not available"

(* C7  as stated: every Result is inserted for an Exam that exists and is
   active at that moment; a POST /submit-exam naming an absent or inactive
   Exam records no Result. *)
C7_NoResultForUnavailableExam ==
    [][Len(results') > Len(results) => Available(Last(results').exam_id)]_vars

-----------------------------------------------------------------------------
(* C8  Seed idempotence.  From a users collection with at most one User per
   email, once init_sample_data has run the collection holds exactly one
   User with email admin@test.com and exactly one with student@test.com, and
   every further run leaves the users collection as it is. *)
C8_SeedIdempotent ==
    /\ [](UniqueEmails /\ seedCalls >= 1
            => CountEmail(users, "admin@test.com") = 1
               /\ CountEmail(users, "student@test.com") = 1)
    /\ [][seedCalls >= 1 /\ seedCalls' = seedCalls + 1 => users' = users]_vars

\* two runs over a collection that held the admin email only, under another name
C8_Witness ==
    /\ seedCalls = 2 /\ UniqueEmails
    /\ Len(users) = 2
    /\ users[1].email = "admin@test.com" /\ users[1].username = "Old"
    /\ users[2].email = "student@test.com" /\ users[2].username = "Student"

-----------------------------------------------------------------------------
(* Race vocabulary *)

Finished(w) == reg[w].pc = "done"
Inserted(w) == reg[w].inserted # 0
EmailOf(w) == Get(reg[w].form, "email")
\* v's insert_one came before w's find_one: find_one scanned v's document
Precedes(v, w) == Inserted(v) /\ reg[v].inserted <= reg[w].seen
Succeeded(w) == reg[w].response.flash = "Registration successful. Please login."

(* C9  Registration race.  Two concurrent POST /register with one email that
   no User has: when one request's insert_one precedes the other's find_one,
   the other is rejected and exactly one User with that email exists at the
   end; when both find_one run before either insert_one and both passwords
   are present, both requests report success and two Users share the email. *)
C9_RegistrationRace ==
    \A v, w \in Workers :
        v # w /\ Finished(v) /\ Finished(w) /\ EmailOf(v) = "new@test.com"
              /\ EmailOf(w) = "new@test.com"
          => /\ Precedes(v, w)
                => /\ reg[w].response.flash = "Email already registered"
                   /\ ~Inserted(w)
                   /\ CountEmail(users, "new@test.com") = 1
             /\ ~Precedes(v, w) /\ ~Precedes(w, v)
                   /\ Get(reg[v].form, "password") # None
                   /\ Get(reg[w].form, "password") # None
                => /\ Succeeded(v) /\ Succeeded(w)
                   /\ CountEmail(users, "new@test.com") = 2

\* both requests succeeded and the collection holds the email twice
C9_Witness ==
    /\ \A w \in Workers : Finished(w) /\ Succeeded(w) /\ EmailOf(w) = "new@test.com"
    /\ CountEmail(users, "new@test.com") = 2
    /\ ~UniqueEmails

-----------------------------------------------------------------------------
(* C10  Session state machine.  The session is anonymous or carries the id,
   username and role (student or admin) of one stored User.  It changes only
   in a POST /login whose email and password are those of a stored User,
   which sets it to that User's id, username and role, and in /logout, which
   always leaves it anonymous; every other request, a failed login
   included, leaves it unchanged. *)
C10_SessionStateMachine ==
    /\ [](\/ session = Anonymous
          \/ \E u \in Docs(users) :
                session = SessionFor(u) /\ u.role \in {"student", "admin"})
    /\ [][/\ session' # session
             => \/ Step("logout")
                \/ /\ Post("login")
                   /\ \E u \in Docs(users) :
                         /\ u.email = Field("email")
                         /\ HashOf(u, Field("password"))
                         /\ session' = SessionFor(u)
          /\ Step("logout") => session' = [user_id |-> None, username |-> None,
                                           role |-> None]]_vars

\* a failed login while logged in as admin left the admin session in place
C10_Witness ==
    /\ Answered("login") /\ request.method = "POST"
    /\ response.flash = "Invalid email or password"
    /\ session.role = "admin" /\ session.user_id = "1"

=============================================================================
